---- MODULE Spec2Model ----
(***************************************************************************)
(* Model of src/src/Components/VerifcationComponent.tsx: the React         *)
(* component VerificationComponent, its state fields and its two async     *)
(* handlers captureFace and verifyFace.                                    *)
(*                                                                         *)
(* Numbers.  A descriptor is a vector of coordinates given in tenths.      *)
(* A distance is the real number sqrt(S)/10 and is represented by S, the   *)
(* sum of the squared coordinate differences; sqrt is strictly monotone,   *)
(* so every comparison and rounding the code makes on the distance is      *)
(* made exactly on S.  Floating-point rounding error is not modelled.      *)
(***************************************************************************)
EXTENDS Integers, Sequences, FiniteSets, Bags, TLC

VARIABLES modelsLoaded, initialFace, verificationResult, statusMessage,
          multipleFacesDetected, isLookingAtScreen,
          loadPc, pending, captures, last

vars == <<modelsLoaded, initialFace, verificationResult, statusMessage,
          multipleFacesDetected, isLookingAtScreen,
          loadPc, pending, captures, last>>

----------------------------------------------------------------------------
(* Bounds *)

\* in-flight handler runs (awaiting the detector) at one time
MaxPending == 2
\* faces the detector reports for one frame
MaxFaces == 3
\* largest coordinate (in tenths) of the probe descriptors of VerdictSpec
MaxCoord == 13
\* largest coordinate of the eye and nose positions of GazeSpec
MaxGaze == 4

\* null, as a record so that it compares with the objects it stands in for
Null == [null |-> TRUE]

----------------------------------------------------------------------------
(* Inputs: descriptors, landmarks, detections, frames *)

\* Descriptors, coordinates in tenths.  Distances between them:
\*   <<0,0,0>>-<<4,2,4>> 0.6   <<0,0,0>>-<<13,0,0>> 1.3
\*   <<4,2,4>>-<<13,0,0>> sqrt(1.01) = 1.00499
Descriptors == { <<0, 0, 0>>, <<4, 2, 4>>, <<13, 0, 0>> }

\* A landmark set: the points getNose(), getLeftEye() and getRightEye()
\* return, each point <<x, y>>.
lmFrontal == [nose     |-> << <<8, 4>>, <<8, 6>>, <<8, 8>>, <<9, 12>> >>,
              leftEye  |-> << <<1, 10>>, <<4, 11>> >>,
              rightEye |-> << <<12, 10>>, <<14, 11>>, <<13, 12>> >>]
lmTilted == [nose     |-> << <<8, 4>>, <<8, 6>>, <<8, 8>>, <<8, 12>> >>,
             leftEye  |-> << <<2, 10>>, <<4, 10>> >>,
             rightEye |-> << <<12, 13>>, <<14, 13>> >>]
lmYawed == [nose     |-> << <<8, 4>>, <<8, 6>>, <<8, 8>>, <<12, 12>> >>,
            leftEye  |-> << <<2, 10>>, <<4, 10>> >>,
            rightEye |-> << <<12, 10>>, <<14, 10>> >>]
lmDegenerate == [nose     |-> << <<8, 4>>, <<8, 6>>, <<8, 8>>, <<8, 12>> >>,
                 leftEye  |-> << <<7, 10>>, <<9, 10>> >>,
                 rightEye |-> << <<7, 14>>, <<9, 14>> >>]

\* one detected face: a frontal face with any descriptor, or a face that is
\* tilted, yawed or degenerate
Detections ==
    [landmarks : {lmFrontal}, descriptor : Descriptors]
    \cup [landmarks : {lmTilted, lmYawed, lmDegenerate},
          descriptor : {<<4, 2, 4>>}]

\* the faces of a frame with several faces, in the detector's order
Crowd == << [landmarks |-> lmFrontal, descriptor |-> <<0, 0, 0>>],
            [landmarks |-> lmFrontal, descriptor |-> <<13, 0, 0>>],
            [landmarks |-> lmTilted, descriptor |-> <<4, 2, 4>>] >>

CrowdFrame(n) == [i \in 1..n |-> Crowd[((i - 1) % Len(Crowd)) + 1]]

\* what detectAllFaces(...).withFaceLandmarks().withFaceDescriptors()
\* resolves to
Frames == { <<>> } \cup { <<d>> : d \in Detections }
          \cup { CrowdFrame(n) : n \in 2..MaxFaces }

\* the descriptors VerdictSpec enrolls and the ones it probes with; the
\* distances from <<0, 0>> cover 0, 0.6, 1.0, sqrt(1.01) and 1.3
EnrolledForVerdict == { <<0, 0>>, <<3, 7>> }
ProbeDescriptors == { <<x, y>> : x \in 0..MaxCoord, y \in 0..MaxCoord }

\* the landmark sets GazeSpec presents: a left eye of two points centred at
\* (lx + 1, ly), a right eye of three points centred at (rx + 1, ry), and a
\* nose whose fourth point is at x = nx
GazeLandmark(lx, ly, rx, ry, nx) ==
    [nose     |-> << <<0, 0>>, <<0, 1>>, <<0, 2>>, <<nx, 3>> >>,
     leftEye  |-> << <<lx, ly>>, <<lx + 2, ly>> >>,
     rightEye |-> << <<rx, ry>>, <<rx + 1, ry>>, <<rx + 2, ry>> >>]

GazeLandmarks ==
    { GazeLandmark(lx, ly, rx, ry, nx) :
        lx \in 0..MaxGaze, ly \in 0..MaxGaze, rx \in 0..MaxGaze,
        ry \in 0..MaxGaze, nx \in 0..(MaxGaze + 2) }

\* the canvas at drawing time: the overlay is drawn, or getContext("2d")
\* returned null.  The <canvas> element is rendered unconditionally, so
\* canvasRef.current is set whenever a handler can run.
CanvasOutcomes == { "drawn", "noctx" }

----------------------------------------------------------------------------
(* Pure functions *)

Abs(x) == IF x < 0 THEN -x ELSE x

RECURSIVE SumX(_), SumY(_)
SumX(pts) == IF pts = <<>> THEN 0 ELSE pts[1][1] + SumX(Tail(pts))
SumY(pts) == IF pts = <<>> THEN 0 ELSE pts[1][2] + SumY(Tail(pts))

\* face-api getCenterPoint: the mean of the points, kept as the rational
\* (sx / n, sy / n)
getCenterPoint(pts) == [sx |-> SumX(pts), sy |-> SumY(pts), n |-> Len(pts)]

\* variant: the two comparisons with <= in place of <
checkIfLookingAtScreen_Inclusive(landmarks) ==
    LET nosePoint == landmarks.nose[4]
        leftEyeCenter == getCenterPoint(landmarks.leftEye)
        rightEyeCenter == getCenterPoint(landmarks.rightEye)
        den == 2 * leftEyeCenter.n * rightEyeCenter.n
        eyeLineX == 2 * (rightEyeCenter.sx * leftEyeCenter.n
                         - leftEyeCenter.sx * rightEyeCenter.n)
        eyeLineY == 2 * (rightEyeCenter.sy * leftEyeCenter.n
                         - leftEyeCenter.sy * rightEyeCenter.n)
        noseXCenter == rightEyeCenter.sx * leftEyeCenter.n
                       + leftEyeCenter.sx * rightEyeCenter.n
        noseOffset == Abs(nosePoint[1] * den - noseXCenter)
    IN  /\ 10 * Abs(eyeLineY) <= 3 * Abs(eyeLineX)
        /\ 10 * noseOffset <= 4 * Abs(eyeLineX)

\* variant: the nose reference taken from nose[0] in place of nose[3]
checkIfLookingAtScreen_NoseBridge(landmarks) ==
    LET nosePoint == landmarks.nose[1]
        leftEyeCenter == getCenterPoint(landmarks.leftEye)
        rightEyeCenter == getCenterPoint(landmarks.rightEye)
        den == 2 * leftEyeCenter.n * rightEyeCenter.n
        eyeLineX == 2 * (rightEyeCenter.sx * leftEyeCenter.n
                         - leftEyeCenter.sx * rightEyeCenter.n)
        eyeLineY == 2 * (rightEyeCenter.sy * leftEyeCenter.n
                         - leftEyeCenter.sy * rightEyeCenter.n)
        noseXCenter == rightEyeCenter.sx * leftEyeCenter.n
                       + leftEyeCenter.sx * rightEyeCenter.n
        noseOffset == Abs(nosePoint[1] * den - noseXCenter)
    IN  /\ 10 * Abs(eyeLineY) < 3 * Abs(eyeLineX)
        /\ 10 * noseOffset < 4 * Abs(eyeLineX)

\* checkIfLookingAtScreen; every quantity is carried over the common
\* denominator 2 * leftEyeCenter.n * rightEyeCenter.n, and the factors 0.3
\* and 0.4 are applied as 3/10 and 4/10
checkIfLookingAtScreen(landmarks) ==
    LET nosePoint == landmarks.nose[4]
        leftEyeCenter == getCenterPoint(landmarks.leftEye)
        rightEyeCenter == getCenterPoint(landmarks.rightEye)
        den == 2 * leftEyeCenter.n * rightEyeCenter.n
        eyeLineX == 2 * (rightEyeCenter.sx * leftEyeCenter.n
                         - leftEyeCenter.sx * rightEyeCenter.n)
        eyeLineY == 2 * (rightEyeCenter.sy * leftEyeCenter.n
                         - leftEyeCenter.sy * rightEyeCenter.n)
        eyeYDifference == Abs(eyeLineY)
        eyeXDifference == Abs(eyeLineX)
        noseXCenter == rightEyeCenter.sx * leftEyeCenter.n
                       + leftEyeCenter.sx * rightEyeCenter.n
        noseOffset == Abs(nosePoint[1] * den - noseXCenter)
        isEyesLevel == 10 * eyeYDifference < 3 * eyeXDifference
        isNoseCentered == 10 * noseOffset < 4 * eyeXDifference
    IN  isEyesLevel /\ isNoseCentered

\* faceapi.euclideanDistance: sqrt of the sum of squared differences,
\* represented by that sum
RECURSIVE euclideanDistance(_, _)
euclideanDistance(arr1, arr2) ==
    IF arr1 = <<>> THEN 0
    ELSE (arr1[1] - arr2[1]) * (arr1[1] - arr2[1])
         + euclideanDistance(Tail(arr1), Tail(arr2))

\* const threshold = 0.6, in tenths
threshold == 6

\* variant: distance <= threshold
isMatchOf_Inclusive(distance) == distance <= threshold * threshold

\* variant: distance > threshold
isMatchOf_Inverted(distance) == distance > threshold * threshold

\* distance < threshold
isMatchOf(distance) == distance < threshold * threshold

\* floor of the square root of n, by bisection on lo..hi (hi * hi must fit
\* the 32-bit integers of the model checker)
RECURSIVE SqrtFloor(_, _, _)
SqrtFloor(n, lo, hi) ==
    IF lo = hi THEN lo
    ELSE LET mid == (lo + hi + 1) \div 2
         IN  IF mid * mid <= n THEN SqrtFloor(n, mid, hi)
             ELSE SqrtFloor(n, lo, mid - 1)

\* Math.round(x) for x = (h - sqrt(n)) / 2 with integers h and n >= 0:
\* floor(x + 1/2) = floor((h + 1 - sqrt(n)) / 2)
MathRoundHalves(h, n) ==
    LET k == SqrtFloor(n, 0, IF n < 46340 THEN n ELSE 46340)
    IN  IF k * k = n THEN (h + 1 - k) \div 2 ELSE (h - k) \div 2

\* variant: the percentage clamped to 0..100
confidenceOf_Clamped(distance) ==
    LET c == MathRoundHalves(200, 400 * distance)
    IN  IF c < 0 THEN 0 ELSE IF c > 100 THEN 100 ELSE c

\* Math.round((1 - distance) * 100): with the distance sqrt(S) / 10,
\* (1 - distance) * 100 = (200 - sqrt(400 * S)) / 2
confidenceOf(distance) == MathRoundHalves(200, 400 * distance)

----------------------------------------------------------------------------
(* Decisions of the handlers *)

\* variant: captureFace without its guard
captureBlocked_Never(loaded) == FALSE

\* captureFace's guard: !videoRef.current || !modelsLoaded.  The <video>
\* element is rendered unconditionally, so videoRef.current is set whenever
\* a handler can run.
captureBlocked(loaded) == ~loaded

\* variant: the guard without the !initialFace test
verifyBlocked_ModelsOnly(face, loaded) == ~loaded

\* verifyFace's guard: !videoRef.current || !initialFace || !modelsLoaded
verifyBlocked(face, loaded) == face = Null \/ ~loaded

\* the verify button: disabled={!initialFace}
verifyButtonDisabled == initialFace = Null

\* the capture button: disabled={!modelsLoaded}
captureButtonDisabled == ~modelsLoaded

\* variant: the branches without the gaze check
frameOutcome_SkipGaze(detections) ==
    IF Len(detections) = 0 THEN "NoFace"
    ELSE IF Len(detections) > 1 THEN "MultipleFaces"
    ELSE "Usable"

\* variant: the branches without the length > 1 check, the first face taken
frameOutcome_FirstOfMany(detections) ==
    IF Len(detections) = 0 THEN "NoFace"
    ELSE IF ~checkIfLookingAtScreen(detections[1].landmarks)
         THEN "NotFacingCamera"
    ELSE "Usable"

\* the branch a handler takes on the resolved detections, in code order:
\* length === 0, length > 1, !isLooking, else the success path
frameOutcome(detections) ==
    IF Len(detections) = 0 THEN "NoFace"
    ELSE IF Len(detections) > 1 THEN "MultipleFaces"
    ELSE IF ~checkIfLookingAtScreen(detections[1].landmarks)
         THEN "NotFacingCamera"
    ELSE "Usable"

\* setInitialFace({descriptor: detection.descriptor, detection})
capturedFace(detection) ==
    [descriptor |-> detection.descriptor, detection |-> detection]

\* variant: the !isLooking branch falls through to setInitialFace
faceAfterCapture_NoReturn(face, outcome, detection) ==
    IF outcome \in {"Usable", "NotFacingCamera"}
    THEN capturedFace(detection) ELSE face

\* variant: the no-face branch resets the enrollment
faceAfterCapture_ClearOnNoFace(face, outcome, detection) ==
    IF outcome = "Usable" THEN capturedFace(detection)
    ELSE IF outcome = "NoFace" THEN Null ELSE face

\* variant: an existing enrollment is kept, a later capture does not replace it
faceAfterCapture_KeepFirst(face, outcome, detection) ==
    IF outcome = "Usable" /\ face = Null THEN capturedFace(detection) ELSE face

\* initialFace after captureFace's branch: only the success path reaches
\* setInitialFace, every other branch returns before it
faceAfterCapture(face, outcome, detection) ==
    IF outcome = "Usable" THEN capturedFace(detection) ELSE face

\* variant: a successful capture clears the displayed result
resultAfterCapture_Reset(result, outcome) ==
    IF outcome = "Usable" THEN Null ELSE result

\* verificationResult after captureFace: no branch of captureFace calls
\* setVerificationResult
resultAfterCapture(result, outcome) == result

\* variant: a usable frame clears the multiple-faces flag
multipleAfter_ClearOnUsable(flag, outcome) ==
    IF outcome = "MultipleFaces" THEN TRUE
    ELSE IF outcome = "Usable" THEN FALSE ELSE flag

\* multipleFacesDetected after a handler's branch: setMultipleFacesDetected
\* is only ever called with true, in the length > 1 branch
multipleAfter(flag, outcome) ==
    IF outcome = "MultipleFaces" THEN TRUE ELSE flag

\* variant: the no-face branch sets no status
captureStatus_SilentNoFace(outcome) ==
    CASE outcome = "NoFace" -> "Detecting Face...."
      [] outcome = "MultipleFaces" ->
           "Multiple faces detected! Please ensure only your face is in the frame."
      [] outcome = "NotFacingCamera" ->
           "Please look directly at the screen before capturing your face."
      [] outcome = "Usable" ->
           "Face captured successfully! Now try the verification."

\* the status captureFace leaves for each branch, before any canvas work
captureStatus(outcome) ==
    CASE outcome = "NoFace" ->
           "No face detected! Please position yourself properly and try again"
      [] outcome = "MultipleFaces" ->
           "Multiple faces detected! Please ensure only your face is in the frame."
      [] outcome = "NotFacingCamera" ->
           "Please look directly at the screen before capturing your face."
      [] outcome = "Usable" ->
           "Face captured successfully! Now try the verification."

\* variant: every unusable frame reported with the no-face message
failedVerdict_OneMessage(outcome) ==
    [isMatch |-> FALSE, message |-> <<"No face detected for verification.">>]

\* the result verifyFace sets when the frame is not usable
failedVerdict(outcome) ==
    [isMatch |-> FALSE,
     message |-> CASE outcome = "NoFace" ->
                        <<"No face detected for verification.">>
                   [] outcome = "MultipleFaces" ->
                        <<"Multiple faces detected. Please ensure only your face is in the frame.">>
                   [] outcome = "NotFacingCamera" ->
                        <<"Please look directly at the screen for verification.">>]

\* the result verifyFace sets on the success path; face is the initialFace
\* the handler closed over
computedVerdict(face, detection) ==
    LET distance == euclideanDistance(face.descriptor, detection.descriptor)
        isMatch == isMatchOf(distance)
        confidence == confidenceOf(distance)
    IN  [isMatch |-> isMatch,
         distance |-> distance,
         confidence |-> confidence,
         message |-> IF isMatch
                     THEN <<"Match confirmed! (", confidence, "% confidence)">>
                     ELSE <<"Different person detected. (", confidence,
                            "% similarity)">>]

\* the status verifyFace leaves for each branch
verifyStatus(outcome, verdict) ==
    CASE outcome = "NoFace" -> "Verification failed: No face detected."
      [] outcome = "MultipleFaces" ->
           "Verification failed: Multiple faces detected."
      [] outcome = "NotFacingCamera" ->
           "Verification failed: Not looking at screen."
      [] outcome = "Usable" ->
           IF verdict.isMatch
           THEN "Verification complete: Match confirmed!"
           ELSE "Verification complete: Different person detected."

\* a drawing block that finds no 2d context sets this status and returns
afterCanvas(canvas, status) ==
    IF canvas = "noctx" THEN "Canvas not initialized" ELSE status

----------------------------------------------------------------------------
(* State *)

\* a handler run suspended at its await: the handler, and for verifyFace the
\* initialFace of the render whose handler was invoked (its closure);
\* startedWith records, from the captures made so far, which descriptor
\* was the enrolled one then
Run(op, face, startedWith) ==
    [op |-> op, initialFace |-> face, startedWith |-> startedWith]

\* the record of the step just taken: the action, and the inputs it drew
Step(op, n, detection, canvas, startedWith) ==
    [op |-> op, n |-> n, detection |-> detection, canvas |-> canvas,
     startedWith |-> startedWith]

\* the descriptor of the latest successful capture, Null before the first
latestCapture == IF captures = <<>> THEN Null
                 ELSE [descriptor |-> captures[Len(captures)]]

Init ==
    /\ modelsLoaded = FALSE
    /\ initialFace = Null
    /\ verificationResult = Null
    /\ statusMessage = "Loading Models...."
    /\ multipleFacesDetected = FALSE
    /\ isLookingAtScreen = TRUE
    /\ loadPc = "idle"
    /\ pending = EmptyBag
    /\ captures = <<>>
    /\ last = Step("init", -1, Null, "none", Null)

----------------------------------------------------------------------------
(* loadModels *)

\* useEffect(() => { loadModels() }, []) up to the await
loadModels ==
    /\ loadPc = "idle"
    /\ loadPc' = "loading"
    /\ statusMessage' = "Loading face detection models"
    /\ last' = Step("loadModels", -1, Null, "none", Null)
    /\ UNCHANGED <<modelsLoaded, initialFace, verificationResult,
                   multipleFacesDetected, isLookingAtScreen,
                   pending, captures>>

loadModelsResolve ==
    /\ loadPc = "loading"
    /\ loadPc' = "loaded"
    /\ modelsLoaded' = TRUE
    /\ statusMessage' = "Models loaded successfully, you can now capture face."
    /\ last' = Step("loadModelsResolve", -1, Null, "none", Null)
    /\ UNCHANGED <<initialFace, verificationResult, multipleFacesDetected,
                   isLookingAtScreen, pending, captures>>

loadModelsReject ==
    /\ loadPc = "loading"
    /\ loadPc' = "failed"
    /\ statusMessage' = "Failed to load models. Check console for details."
    /\ last' = Step("loadModelsReject", -1, Null, "none", Null)
    /\ UNCHANGED <<modelsLoaded, initialFace, verificationResult,
                   multipleFacesDetected, isLookingAtScreen,
                   pending, captures>>

----------------------------------------------------------------------------
(* captureFace *)

\* captureFace up to its await: the guard, the status, the detector call
captureFace ==
    /\ last' = Step("captureFace", -1, Null, "none", Null)
    /\ IF captureBlocked(modelsLoaded)
       THEN UNCHANGED <<statusMessage, pending>>
       ELSE /\ BagCardinality(pending) < MaxPending
            /\ statusMessage' = "Detecting Face...."
            /\ pending' = pending (+) SetToBag({Run("capture", Null, Null)})
    /\ UNCHANGED <<modelsLoaded, initialFace, verificationResult,
                   multipleFacesDetected, isLookingAtScreen, loadPc, captures>>

\* captureFace after its await resolved with detections
captureContinue(run, detections, canvas) ==
    LET outcome == frameOutcome(detections)
        detection == detections[1]
    IN  /\ pending' = pending (-) SetToBag({run})
        /\ multipleFacesDetected' = multipleAfter(multipleFacesDetected, outcome)
        /\ isLookingAtScreen' =
             CASE outcome = "NotFacingCamera" -> FALSE
               [] outcome = "Usable" -> TRUE
               [] OTHER -> isLookingAtScreen
        /\ initialFace' = faceAfterCapture(initialFace, outcome, detection)
        /\ captures' =
             IF outcome = "Usable"
             THEN IF captures = <<>> THEN <<detection.descriptor>>
                  ELSE <<captures[Len(captures)], detection.descriptor>>
             ELSE captures
        /\ statusMessage' =
             IF outcome = "NoFace" THEN captureStatus(outcome)
             ELSE afterCanvas(canvas, captureStatus(outcome))
        /\ last' = Step("captureResolve", Len(detections),
                        IF Len(detections) = 1 THEN detection ELSE Null,
                        IF outcome = "NoFace" THEN "none" ELSE canvas, Null)
        /\ verificationResult' = resultAfterCapture(verificationResult, outcome)
        /\ UNCHANGED <<modelsLoaded, loadPc>>

captureResolve ==
    \E run \in BagToSet(pending), detections \in Frames, canvas \in CanvasOutcomes :
        /\ run.op = "capture"
        /\ detections = <<>> => canvas = "drawn"
        /\ captureContinue(run, detections, canvas)

\* captureFace after its await rejected: the catch block
captureReject ==
    \E run \in BagToSet(pending) :
        /\ run.op = "capture"
        /\ pending' = pending (-) SetToBag({run})
        /\ statusMessage' = "Failed at detecting face."
        /\ last' = Step("captureReject", -1, Null, "none", Null)
        /\ UNCHANGED <<modelsLoaded, initialFace, verificationResult,
                       multipleFacesDetected, isLookingAtScreen, loadPc, captures>>

----------------------------------------------------------------------------
(* verifyFace *)

\* verifyFace up to its await: the guard, the status, the detector call
verifyFace ==
    /\ last' = Step("verifyFace", -1, Null, "none", latestCapture)
    /\ IF verifyBlocked(initialFace, modelsLoaded)
       THEN /\ statusMessage' = "Please capture your initial face first"
            /\ UNCHANGED pending
       ELSE /\ BagCardinality(pending) < MaxPending
            /\ statusMessage' = "Verifying face"
            /\ pending' = pending (+) SetToBag({Run("verify", initialFace,
                                                     latestCapture)})
    /\ UNCHANGED <<modelsLoaded, initialFace, verificationResult,
                   multipleFacesDetected, isLookingAtScreen, loadPc, captures>>

\* verifyFace after its await resolved with detections
verifyContinue(run, detections, canvas) ==
    LET outcome == frameOutcome(detections)
        detection == detections[1]
        verdict == IF outcome = "Usable"
                   THEN computedVerdict(run.initialFace, detection)
                   ELSE failedVerdict(outcome)
    IN  /\ pending' = pending (-) SetToBag({run})
        /\ multipleFacesDetected' = multipleAfter(multipleFacesDetected, outcome)
        /\ isLookingAtScreen' =
             CASE outcome = "NotFacingCamera" -> FALSE
               [] outcome = "Usable" -> TRUE
               [] OTHER -> isLookingAtScreen
        /\ verificationResult' = verdict
        /\ statusMessage' =
             IF outcome = "NoFace" THEN verifyStatus(outcome, verdict)
             ELSE afterCanvas(canvas, verifyStatus(outcome, verdict))
        /\ last' = Step("verifyResolve", Len(detections),
                        IF Len(detections) = 1 THEN detection ELSE Null,
                        IF outcome = "NoFace" THEN "none" ELSE canvas,
                        run.startedWith)
        /\ UNCHANGED <<modelsLoaded, initialFace, loadPc, captures>>

verifyResolve ==
    \E run \in BagToSet(pending), detections \in Frames, canvas \in CanvasOutcomes :
        /\ run.op = "verify"
        /\ detections = <<>> => canvas = "drawn"
        /\ verifyContinue(run, detections, canvas)

\* verifyFace after its await rejected: the catch block
verifyReject ==
    \E run \in BagToSet(pending) :
        /\ run.op = "verify"
        /\ pending' = pending (-) SetToBag({run})
        /\ statusMessage' = "Error at verifying the face."
        /\ last' = Step("verifyReject", -1, Null, "none",
                        run.startedWith)
        /\ UNCHANGED <<modelsLoaded, initialFace, verificationResult,
                       multipleFacesDetected, isLookingAtScreen, loadPc, captures>>

----------------------------------------------------------------------------

Next ==
    \/ loadModels
    \/ loadModelsResolve
    \/ loadModelsReject
    \/ captureFace
    \/ captureResolve
    \/ captureReject
    \/ verifyFace
    \/ verifyResolve
    \/ verifyReject

Spec == Init /\ [][Next]_vars

----------------------------------------------------------------------------
(* The verdict computation over a dense range of distances: the component
   right after a successful capture, then verifyFace runs whose frames hold
   one frontal face with any probe descriptor *)

VerdictInit ==
    \E e \in EnrolledForVerdict :
        LET detection == [landmarks |-> lmFrontal, descriptor |-> e]
        IN  /\ modelsLoaded = TRUE
            /\ initialFace = capturedFace(detection)
            /\ verificationResult = Null
            /\ statusMessage = captureStatus("Usable")
            /\ multipleFacesDetected = FALSE
            /\ isLookingAtScreen = TRUE
            /\ loadPc = "loaded"
            /\ pending = EmptyBag
            /\ captures = <<e>>
            /\ last = Step("captureResolve", 1, detection, "drawn", Null)

verifyProbe ==
    \E run \in BagToSet(pending), d \in ProbeDescriptors :
        /\ run.op = "verify"
        /\ verifyContinue(run, <<[landmarks |-> lmFrontal, descriptor |-> d]>>,
                          "drawn")

VerdictNext ==
    \/ verifyFace
    \/ verifyProbe

VerdictSpec == VerdictInit /\ [][VerdictNext]_vars

----------------------------------------------------------------------------
(* The gaze check over a grid of landmark sets: the component with the
   models loaded and one captureFace awaiting the detector, which resolves
   with one face of any landmark set of the grid *)

GazeInit ==
    /\ modelsLoaded = TRUE
    /\ initialFace = Null
    /\ verificationResult = Null
    /\ statusMessage = "Detecting Face...."
    /\ multipleFacesDetected = FALSE
    /\ isLookingAtScreen = TRUE
    /\ loadPc = "loaded"
    /\ pending = SetToBag({Run("capture", Null, Null)})
    /\ captures = <<>>
    /\ last = Step("captureFace", -1, Null, "none", Null)

captureGaze ==
    \E run \in BagToSet(pending), lm \in GazeLandmarks :
        /\ run.op = "capture"
        /\ captureContinue(run, <<[landmarks |-> lm,
                                   descriptor |-> <<0, 0, 0>>]>>, "drawn")

GazeNext == captureGaze

GazeSpec == GazeInit /\ [][GazeNext]_vars

----------------------------------------------------------------------------
(* Properties *)

\* a result that carries a distance and a confidence
IsComputed(v) == v # Null /\ "distance" \in DOMAIN v

\* the frame of the step just taken held exactly one face and it passed the
\* gaze check
LastFrameUsable ==
    /\ last.n = 1
    /\ checkIfLookingAtScreen(last.detection.landmarks)

NoFaceResult ==
    [isMatch |-> FALSE, message |-> <<"No face detected for verification.">>]
MultipleFacesResult ==
    [isMatch |-> FALSE,
     message |-> <<"Multiple faces detected. Please ensure only your face is in the frame.">>]
NotFacingResult ==
    [isMatch |-> FALSE,
     message |-> <<"Please look directly at the screen for verification.">>]

\* C1, as claimed: verifyFace sets a verification result only when a face is
\* enrolled and the frame held exactly one detection that passed the gaze
\* check; an empty frame, a multi-face frame and a non-frontal face set none.
C1_VerdictOnlyWhenUsable ==
    [][verificationResult' # verificationResult
         => /\ last'.op = "verifyResolve"
            /\ initialFace # Null
            /\ last'.n = 1
            /\ checkIfLookingAtScreen(last'.detection.landmarks)]_vars

\* C1, amended: the result changes only in a verifyFace continuation, which
\* runs only with a face enrolled, and the result verifyFace sets carries a
\* distance and a confidence exactly when the frame held one detection that
\* passed the gaze check; for an empty frame, a multi-face frame and a
\* non-frontal face it sets a failed result without distance.
C1_ComputedVerdictOnlyWhenUsable ==
    /\ [][verificationResult' # verificationResult
            => last'.op = "verifyResolve"]_vars
    /\ [](last.op = "verifyResolve"
            => /\ initialFace # Null
               /\ last.startedWith # Null
               /\ verificationResult # Null
               /\ IsComputed(verificationResult) <=> LastFrameUsable)

C1_Witness ==
    /\ last.op = "verifyResolve"
    /\ LastFrameUsable
    /\ IsComputed(verificationResult)

\* C2: a verifyFace invoked with no face enrolled starts no detection, sets
\* no result, leaves the enrollment absent and reports the "capture your
\* initial face first" status; the verify button is enabled exactly when a
\* capture has succeeded.
C2_VerifyNotEnrolled ==
    /\ [][(last'.op = "verifyFace" /\ initialFace = Null)
            => /\ pending' = pending
               /\ verificationResult' = verificationResult
               /\ initialFace' = Null
               /\ statusMessage' = "Please capture your initial face first"]_vars
    /\ [](verifyButtonDisabled <=> captures = <<>>)

C2_Witness ==
    /\ last.op = "verifyFace"
    /\ modelsLoaded
    /\ initialFace = Null
    /\ statusMessage = "Please capture your initial face first"

\* the status a capture branch leaves, given what the canvas did
C3_Status(text) ==
    IF last.canvas = "noctx" THEN "Canvas not initialized" ELSE text

\* C3: a capture continuation ends by the frame: no detection - NoFace;
\* two or more - MultipleFaces, the gaze flag untouched; one non-frontal -
\* NotFacingCamera; one frontal - enrolled with that detection's descriptor.
\* The four cases exclude each other and nothing else happens.
C3_CaptureOutcomes ==
    [][last'.op = "captureResolve"
         => /\ last'.n >= 0
            /\ last'.n = 0
                 => /\ statusMessage' =
                          "No face detected! Please position yourself properly and try again"
                    /\ UNCHANGED <<initialFace, multipleFacesDetected,
                                   isLookingAtScreen>>
            /\ last'.n >= 2
                 => /\ multipleFacesDetected'
                    /\ statusMessage' = C3_Status(
                          "Multiple faces detected! Please ensure only your face is in the frame.")'
                    /\ UNCHANGED <<initialFace, isLookingAtScreen>>
            /\ (last'.n = 1
                /\ ~checkIfLookingAtScreen(last'.detection.landmarks))
                 => /\ ~isLookingAtScreen'
                    /\ statusMessage' = C3_Status(
                          "Please look directly at the screen before capturing your face.")'
                    /\ UNCHANGED <<initialFace, multipleFacesDetected>>
            /\ (last'.n = 1
                /\ checkIfLookingAtScreen(last'.detection.landmarks))
                 => /\ initialFace' # Null
                    /\ initialFace'.descriptor = last'.detection.descriptor
                    /\ ~verifyButtonDisabled'
                    /\ isLookingAtScreen'
                    /\ statusMessage' = C3_Status(
                          "Face captured successfully! Now try the verification.")'
                    /\ UNCHANGED multipleFacesDetected]_vars

C3_Witness ==
    /\ last.op = "captureResolve"
    /\ LastFrameUsable
    /\ initialFace # Null
    /\ initialFace.descriptor = last.detection.descriptor
    /\ Len(captures) = 2
    /\ captures[1] # captures[2]

\* C4: the enrolled face changes only in a capture continuation whose frame
\* held exactly one detection that passed the gaze check, and then to that
\* detection's descriptor; failed captures and every verify leave it as is.
C4_EnrolledChangedOnlyByCapture ==
    [][initialFace' # initialFace
         => /\ last'.op = "captureResolve"
            /\ last'.n = 1
            /\ checkIfLookingAtScreen(last'.detection.landmarks)
            /\ initialFace'.descriptor = last'.detection.descriptor]_vars

C4_Witness ==
    /\ last.op = "verifyResolve"
    /\ LastFrameUsable
    /\ initialFace # Null
    /\ last.detection.descriptor # initialFace.descriptor

\* C5: the component starts with no face enrolled, and once a face is
\* enrolled a face is enrolled in every later state.
C5_EnrolledForever ==
    /\ initialFace = Null
    /\ [][initialFace # Null => initialFace' # Null]_vars

C5_Witness ==
    /\ initialFace # Null
    /\ last.op = "captureResolve"
    /\ last.n = 0

\* C6: a verify started after captures A then B computes its verdict from
\* the distance to B, the latest capture at its start.
C6_MatchesLatestCapture ==
    ( /\ last.op = "verifyResolve"
      /\ IsComputed(verificationResult) )
    => /\ last.startedWith # Null
       /\ verificationResult.distance =
            euclideanDistance(last.startedWith.descriptor,
                              last.detection.descriptor)

C6_Witness ==
    /\ last.op = "verifyResolve"
    /\ IsComputed(verificationResult)
    /\ Len(captures) = 2
    /\ captures[1] # captures[2]
    /\ last.startedWith = [descriptor |-> captures[2]]
    /\ euclideanDistance(captures[1], last.detection.descriptor)
         # euclideanDistance(captures[2], last.detection.descriptor)
    /\ verificationResult.distance
         = euclideanDistance(captures[2], last.detection.descriptor)

\* the squared distance, in hundredths, between the descriptor enrolled when
\* the verify of the step just taken started and the descriptor of its frame
LastSquaredDistance ==
    LET e == last.startedWith.descriptor
        p == last.detection.descriptor
    IN  (e[1] - p[1]) * (e[1] - p[1]) + (e[2] - p[2]) * (e[2] - p[2])

\* C7: a computed verdict has isMatch exactly when the distance is below
\* 0.6 (squared distance below 0.36), so a distance of exactly 0.6 gives
\* no match; its message is the match text iff isMatch, else the
\* different-person text.
C7_StrictThreshold ==
    ( /\ last.op = "verifyResolve"
      /\ IsComputed(verificationResult) )
    => /\ verificationResult.distance = LastSquaredDistance
       /\ verificationResult.isMatch <=> LastSquaredDistance < 36
       /\ LastSquaredDistance = 36 => ~verificationResult.isMatch
       /\ verificationResult.message =
            IF verificationResult.isMatch
            THEN <<"Match confirmed! (", verificationResult.confidence,
                   "% confidence)">>
            ELSE <<"Different person detected. (",
                   verificationResult.confidence, "% similarity)">>

C7_Witness ==
    /\ last.op = "verifyResolve"
    /\ IsComputed(verificationResult)
    /\ LastSquaredDistance = 36
    /\ ~verificationResult.isMatch
    /\ verificationResult.message[1] = "Different person detected. ("

\* c is (1 - d) * 100 rounded to the nearest integer, halves upwards, for
\* the distance d = sqrt(S) / 10:  c - 1/2 <= 100 - 100 d < c + 1/2, that
\* is 199 - 2c < sqrt(400 S) <= 201 - 2c
IsRoundedConfidence(c, S) ==
    /\ 201 - 2 * c >= 0
    /\ 400 * S <= (201 - 2 * c) * (201 - 2 * c)
    /\ 199 - 2 * c < 0 \/ 400 * S > (199 - 2 * c) * (199 - 2 * c)

\* C8, as claimed: the confidence is round((1 - distance) * 100), negative
\* for every distance above 1.0 (-30 at 1.3) and never above 100.
C8_NegativeAboveOne ==
    ( /\ last.op = "verifyResolve"
      /\ IsComputed(verificationResult) )
    => /\ IsRoundedConfidence(verificationResult.confidence,
                              LastSquaredDistance)
       /\ LastSquaredDistance > 100 => verificationResult.confidence < 0
       /\ LastSquaredDistance = 169 => verificationResult.confidence = -30
       /\ verificationResult.confidence <= 100

\* C8, amended: the confidence is round((1 - distance) * 100), unclamped;
\* it is negative exactly for the distances above 1.005 (-30 at 1.3), it is
\* 0 for the distances above 1.0 up to 1.005, and it is never above 100.
C8_NegativeAboveRounding ==
    ( /\ last.op = "verifyResolve"
      /\ IsComputed(verificationResult) )
    => /\ IsRoundedConfidence(verificationResult.confidence,
                              LastSquaredDistance)
       /\ verificationResult.confidence < 0
            <=> 400 * LastSquaredDistance > 201 * 201
       /\ (LastSquaredDistance > 100 /\ 400 * LastSquaredDistance <= 201 * 201)
            => verificationResult.confidence = 0
       /\ LastSquaredDistance = 169 => verificationResult.confidence = -30
       /\ verificationResult.confidence <= 100

C8_Witness ==
    /\ last.op = "verifyResolve"
    /\ IsComputed(verificationResult)
    /\ LastSquaredDistance = 101
    /\ verificationResult.confidence = 0

\* C9: a verify on a single frontal face whose descriptor equals the one
\* enrolled when the verify started gives distance 0, a match and
\* confidence 100.
C9_IdenticalDescriptor ==
    ( /\ last.op = "verifyResolve"
      /\ LastFrameUsable
      /\ last.startedWith = [descriptor |-> last.detection.descriptor] )
    => /\ IsComputed(verificationResult)
       /\ verificationResult.distance = 0
       /\ verificationResult.isMatch
       /\ verificationResult.confidence = 100

C9_Witness ==
    /\ last.op = "verifyResolve"
    /\ LastFrameUsable
    /\ last.startedWith = [descriptor |-> last.detection.descriptor]
    /\ verificationResult.confidence = 100
    /\ Len(captures) = 2

\* the result a verifyFace continuation owes to the frame of the step just
\* taken
C10_OwnResult ==
    /\ last.n = 0 => verificationResult = NoFaceResult
    /\ last.n >= 2 => verificationResult = MultipleFacesResult
    /\ (last.n = 1 /\ ~checkIfLookingAtScreen(last.detection.landmarks))
         => verificationResult = NotFacingResult
    /\ LastFrameUsable
         => /\ IsComputed(verificationResult)
            /\ verificationResult.distance =
                 euclideanDistance(last.startedWith.descriptor,
                                   last.detection.descriptor)

\* C10, as claimed: every verifyFace that passed its guard ends with a
\* result of its own set: a failed result with the condition's message and
\* no distance for NoFace, MultipleFaces and NotFacingCamera, and no run
\* ends with no result set.
C10_AlwaysOwnVerdict ==
    /\ last.op = "verifyResolve" => C10_OwnResult
    /\ last.op \in {"verifyResolve", "verifyReject"}
         => verificationResult # Null

\* C10, amended: every verifyFace that passed its guard and whose detection
\* resolved ends with a result of its own set (as above); one whose
\* detection rejected sets no result: it leaves verificationResult as it
\* was and reports only the status "Error at verifying the face.".
C10_OwnVerdictUnlessRejected ==
    /\ [](last.op = "verifyResolve" => C10_OwnResult)
    /\ [][last'.op = "verifyReject"
            => /\ verificationResult' = verificationResult
               /\ statusMessage' = "Error at verifying the face."]_vars

C10_Witness ==
    /\ last.op = "verifyResolve"
    /\ last.n >= 2
    /\ verificationResult = MultipleFacesResult
    /\ initialFace # Null

\* the eye geometry of the face of the step just taken, over the common
\* denominator Len(leftEye) * Len(rightEye): the x and y differences of the
\* eye centres, and twice the offset of the nose tip from their midpoint
LastEyeXDiff ==
    LET lm == last.detection.landmarks
    IN  Abs(SumX(lm.rightEye) * Len(lm.leftEye)
            - SumX(lm.leftEye) * Len(lm.rightEye))
LastEyeYDiff ==
    LET lm == last.detection.landmarks
    IN  Abs(SumY(lm.rightEye) * Len(lm.leftEye)
            - SumY(lm.leftEye) * Len(lm.rightEye))
LastNoseOffset ==
    LET lm == last.detection.landmarks
    IN  Abs(2 * lm.nose[4][1] * Len(lm.leftEye) * Len(lm.rightEye)
            - SumX(lm.rightEye) * Len(lm.leftEye)
            - SumX(lm.leftEye) * Len(lm.rightEye))

\* C11: for a face whose eye centres have the same x, the gaze check is
\* false whatever the eye y difference and the nose position: the capture
\* reports not looking and enrolls nothing.
C11_VerticalEyesNotFrontal ==
    ( /\ last.op = "captureResolve"
      /\ last.n = 1
      /\ LastEyeXDiff = 0 )
    => /\ ~isLookingAtScreen
       /\ initialFace = Null
       /\ statusMessage =
            "Please look directly at the screen before capturing your face."

C11_Witness ==
    /\ last.op = "captureResolve"
    /\ last.n = 1
    /\ LastEyeXDiff = 0
    /\ LastEyeYDiff = 0
    /\ LastNoseOffset = 0
    /\ ~isLookingAtScreen

\* C12, as claimed: for a face with the nose tip midway between the eye
\* centres and level eyes, the gaze check is true.
C12_SymmetricLevelFrontal ==
    ( /\ last.op = "captureResolve"
      /\ last.n = 1
      /\ LastNoseOffset = 0
      /\ LastEyeYDiff = 0 )
    => /\ isLookingAtScreen
       /\ initialFace # Null

\* C12, amended: for a face with the nose tip midway between the eye
\* centres and level eyes, the gaze check is true exactly when the eye
\* centres differ in x; with eyeXDiff = 0 it is false.
C12_SymmetricLevelApartFrontal ==
    ( /\ last.op = "captureResolve"
      /\ last.n = 1
      /\ LastNoseOffset = 0
      /\ LastEyeYDiff = 0 )
    => /\ isLookingAtScreen <=> LastEyeXDiff > 0
       /\ initialFace # Null <=> LastEyeXDiff > 0

C12_Witness ==
    /\ last.op = "captureResolve"
    /\ last.n = 1
    /\ LastNoseOffset = 0
    /\ LastEyeYDiff = 0
    /\ LastEyeXDiff > 0
    /\ isLookingAtScreen
    /\ initialFace # Null

\* C13: at most one captureFace/verifyFace run is in progress at a time,
\* and a computed verdict is the distance to the descriptor enrolled at the
\* moment the verdict is set: no verify that was awaiting detection while a
\* capture enrolled a new face produces a verdict against the old one.
C13_OneRunNoStaleVerdict ==
    /\ BagCardinality(pending) <= 1
    /\ ( /\ last.op = "verifyResolve"
         /\ IsComputed(verificationResult) )
       => verificationResult.distance =
            euclideanDistance(initialFace.descriptor,
                              last.detection.descriptor)

\* the interleaving C13 excludes: a verdict computed against a descriptor
\* that a capture replaced while the verify was awaiting detection
C13_StaleVerdict ==
    /\ last.op = "verifyResolve"
    /\ IsComputed(verificationResult)
    /\ last.startedWith # [descriptor |-> initialFace.descriptor]
    /\ verificationResult.distance #
         euclideanDistance(initialFace.descriptor, last.detection.descriptor)

\* C14: after a capture action the status is the "Face captured
\* successfully" text exactly when that action stored its detection as the
\* enrolled face, and after a verify action that set a computed verdict the
\* status is the "Verification complete" text worded as the verdict's
\* isMatch.
C14_StatusAgreesWithOutcome ==
    /\ last.op \in {"captureResolve", "captureReject"}
         => ( statusMessage =
                "Face captured successfully! Now try the verification."
              <=> ( /\ LastFrameUsable
                    /\ initialFace # Null
                    /\ initialFace.descriptor = last.detection.descriptor ) )
    /\ ( /\ last.op = "verifyResolve"
         /\ IsComputed(verificationResult) )
         => statusMessage =
              IF verificationResult.isMatch
              THEN "Verification complete: Match confirmed!"
              ELSE "Verification complete: Different person detected."

C15_Continuations ==
    {"captureResolve", "captureReject", "verifyResolve", "verifyReject"}

\* C15: a run whose detection resolves or rejects finishes in that step
\* with a status other than "Detecting Face...." and "Verifying face" and
\* leaves the pending runs, issuing no new detection; a run leaves the
\* pending runs in no other way, and detections are issued only by the
\* handlers' invocations.
C15_RunsFinishOnce ==
    [][/\ last'.op \in C15_Continuations
            => /\ statusMessage' \notin {"Detecting Face....", "Verifying face"}
               /\ BagCardinality(pending') = BagCardinality(pending) - 1
       /\ BagCardinality(pending') < BagCardinality(pending)
            => last'.op \in C15_Continuations
       /\ BagCardinality(pending') > BagCardinality(pending)
            => /\ last'.op \in {"captureFace", "verifyFace"}
               /\ BagCardinality(pending') = BagCardinality(pending) + 1]_vars

C15_Witness ==
    /\ last.op = "captureResolve"
    /\ last.n = 0
    /\ pending = EmptyBag
    /\ statusMessage =
         "No face detected! Please position yourself properly and try again"

\* C16: no step of captureFace changes verificationResult, so a verdict
\* computed before a later successful capture stays as it was.
C16_CaptureKeepsResult ==
    [][last'.op \in {"captureFace", "captureResolve", "captureReject"}
         => verificationResult' = verificationResult]_vars

C16_Witness ==
    /\ last.op = "captureResolve"
    /\ LastFrameUsable
    /\ IsComputed(verificationResult)
    /\ verificationResult.isMatch
    /\ Len(captures) = 2
    /\ captures[1] # captures[2]
    /\ initialFace.descriptor = captures[2]
    /\ pending = EmptyBag

\* C17: multipleFacesDetected starts false, is true after any capture or
\* verify continuation whose frame held more than one face, turns true in
\* no other step, and once true stays true.
C17_MultipleFacesLatch ==
    /\ multipleFacesDetected = FALSE
    /\ [][/\ multipleFacesDetected => multipleFacesDetected'
          /\ (last'.op \in {"captureResolve", "verifyResolve"} /\ last'.n >= 2)
               => multipleFacesDetected'
          /\ (~multipleFacesDetected /\ multipleFacesDetected')
               => (last'.op \in {"captureResolve", "verifyResolve"}
                   /\ last'.n >= 2)]_vars

C17_Witness ==
    /\ multipleFacesDetected
    /\ last.op = "verifyResolve"
    /\ LastFrameUsable
    /\ verificationResult.isMatch

\* C18: a face is enrolled only with the models loaded; modelsLoaded never
\* returns to false; captureFace invoked before the models are loaded does
\* nothing; and verifyFace reports "capture your initial face first" only
\* when no face is enrolled.
C18_EnrolledImpliesLoaded ==
    /\ [](initialFace # Null => modelsLoaded)
    /\ [][/\ modelsLoaded => modelsLoaded'
          /\ (last'.op = "captureFace" /\ ~modelsLoaded)
               => UNCHANGED <<modelsLoaded, initialFace, verificationResult,
                              statusMessage, multipleFacesDetected,
                              isLookingAtScreen, loadPc, pending, captures>>
          /\ ( /\ last'.op = "verifyFace"
               /\ statusMessage' = "Please capture your initial face first" )
               => initialFace = Null]_vars

C18_Witness ==
    /\ last.op = "verifyFace"
    /\ modelsLoaded
    /\ initialFace # Null
    /\ statusMessage = "Verifying face"

====
